---- MODULE Spec2Model ----
(***************************************************************************)
(* Request handling of the AI music backend.  The repository ships two     *)
(* Flask applications that serve the same routes: src/app.py and           *)
(* src/backend/app.py.  `deploy` records which of the two is running; the  *)
(* handlers of src/backend/app.py carry the prefix backend_.               *)
(***************************************************************************)
EXTENDS Integers, Sequences, FiniteSets, TLC

\* ---------------------------------------------------------------- bounds
NumReq == 2          \* request slots (requests in flight at the same time)
MaxProb == 2         \* classifier scores range over 0..MaxProb

\* ------------------------------------------------------------- sentinels
Missing == "<missing>"      \* a key that is absent from a dict
None == "<None>"            \* Python None / JSON null
Omitted == "<omitted>"      \* a key the response dict does not have

Req == 1..NumReq

\* ------------------------------------------------------ program constants
emotion_labels == <<"Angry", "Disgust", "Fear", "Happy", "Neutral", "Sad", "Surprise">>
UPLOAD_DIR == "/tmp/uploads"
DEFAULT_FILENAME == "uploaded_image.jpg"

\* ---------------------------------------------------------- np.argmax
\* First-occurrence arg-max over the flattened prediction (1-based scan,
\* `best` is replaced only by a strictly larger entry).
RECURSIVE argmax_scan_last(_, _, _)
argmax_scan_last(v, i, best) ==
    IF i > Len(v) THEN best
    ELSE argmax_scan_last(v, i + 1, IF v[i] >= v[best] THEN i ELSE best)

RECURSIVE argmax_scan(_, _, _)
argmax_scan(v, i, best) ==
    IF i > Len(v) THEN best
    ELSE argmax_scan(v, i + 1, IF v[i] > v[best] THEN i ELSE best)

\* np.argmax(pred): 0-based index into the flattened array
np_argmax(v) == argmax_scan(v, 2, 1) - 1

\* emotion_labels[np.argmax(pred)]; an index past the list raises IndexError
IndexError == "list index out of range"
resolve_label(v) ==
    LET idx == np_argmax(v)
    IN IF idx < Len(emotion_labels) THEN emotion_labels[idx + 1] ELSE IndexError

\* ------------------------------------------------- uploads and classifier
\* Uploaded byte strings: a zero-byte payload, bytes that are no image, and
\* two decodable face images.
Faces == {"face1", "face2"}
ImageBytes == {"", "corrupt"} \cup Faces

\* Client-supplied filenames: none, the default name, another name, and a
\* name inside a directory that does not exist under UPLOAD_DIR.
Filenames == {"", DEFAULT_FILENAME, "face.jpg", "nodir/face.jpg"}
SavableNames == {DEFAULT_FILENAME, "face.jpg"}

\* os.path.join("/tmp/uploads", filename)
temp_path(filename) == UPLOAD_DIR \o "/" \o filename
Paths == {temp_path(f) : f \in SavableNames}
NoFile == "<no file>"

\* The classifier artefact emotion_model.keras is opaque: its output width
\* is whatever the file on disk was trained with.
NotLoaded == "<not loaded>"
Artefacts == {"m7", "m3", "m8"}
OutputWidth(m) == CASE m = "m7" -> 7 [] m = "m3" -> 3 [] m = "m8" -> 8
Scores(img) ==
    CASE img = "face1" -> <<2, 2, 1, 1, 1, 1, 2, 0>>
      [] img = "face2" -> <<0, 1, 0, 2, 1, 0, 1, 3>>
\* model.predict(img): deterministic in the artefact and the tensor
predict(m, img) == SubSeq(Scores(img), 1, OutputWidth(m))

\* cv2.imread / cv2.imdecode with IMREAD_GRAYSCALE: None unless decodable
decode_gray(bytes) == IF bytes \in Faces THEN bytes ELSE None

\* ----------------------------------------------------------- JSON bodies
\* The `body` of a request tells what request.get_json() does with it:
\* "malformed" raises (BadRequest / UnsupportedMediaType), "null" yields
\* None, "object" yields a dict.
BlankReq ==
    [route |-> "none", hasImage |-> FALSE, filename |-> "", bytes |-> "",
     body |-> "object", emotion |-> Missing, language |-> Missing,
     artist |-> Missing, email |-> Missing, password |-> Missing]

DetectRequests ==
    {[BlankReq EXCEPT !.route = "detect"]} \cup
    {[BlankReq EXCEPT !.route = "detect", !.hasImage = TRUE,
                      !.filename = f, !.bytes = b] :
        f \in Filenames, b \in ImageBytes}

RecommendRequests ==
    {[BlankReq EXCEPT !.route = "recommend", !.body = k] :
        k \in {"malformed", "null"}} \cup
    {[BlankReq EXCEPT !.route = "recommend", !.emotion = e,
                      !.language = la[1], !.artist = la[2]] :
        e \in {Missing, "", "Happy"},
        la \in {<<Missing, Missing>>, <<"hindi", "Arijit">>}}

SignupRequests ==
    {[BlankReq EXCEPT !.route = "signup", !.body = k] :
        k \in {"malformed", "null"}} \cup
    {[BlankReq EXCEPT !.route = "signup", !.email = e, !.password = p] :
        e \in {Missing, "a@b.c"}, p \in {Missing, "secret"}}

ForgotRequests ==
    {[BlankReq EXCEPT !.route = "forgot-password", !.body = k] :
        k \in {"malformed", "null"}} \cup
    {[BlankReq EXCEPT !.route = "forgot-password", !.email = e] :
        e \in {Missing, "a@b.c"}}

Requests == DetectRequests \cup RecommendRequests \cup SignupRequests \cup ForgotRequests

\* ------------------------------------------------------------- responses
Stages == {"decode", "preprocess", "classify", "resolve",
           "query", "search", "normalize"}
NoCalls == [s \in Stages |-> 0]

NoResp ==
    [kind |-> "none", status |-> 0, keys |-> {}, success |-> FALSE,
     value |-> "", songs |-> <<>>, error |-> ""]

\* jsonify({"success": False, "error": msg}), status
ErrorEnvelope(status, msg) ==
    [NoResp EXCEPT !.kind = "json", !.status = status,
                   !.keys = {"success", "error"}, !.error = msg]

\* jsonify({"success": True, key: value, ...}) (status 200)
OkEnvelope(keys, value, songs) ==
    [NoResp EXCEPT !.kind = "json", !.status = 200,
                   !.keys = {"success"} \cup keys, !.success = TRUE,
                   !.value = value, !.songs = songs]

\* jsonify({key: value, ...}) of src/backend/app.py: no "success" key
BareJson(keys, value, songs) ==
    [NoResp EXCEPT !.kind = "json", !.status = 200, !.keys = keys,
                   !.value = value, !.songs = songs]

\* An exception that leaves the view function: Flask answers with its own
\* error page (the HTTPException's code, 500 for anything else).
Unhandled(status, msg) ==
    [NoResp EXCEPT !.kind = "unhandled", !.status = status, !.error = msg]

\* ------------------------------------------------------------------ state
VARIABLES
    deploy,     \* "app" (src/app.py) or "backend" (src/backend/app.py)
    model,      \* the global `model`: an artefact, or NotLoaded
    db,         \* the global `db`: "client", or None when Firebase init failed
    fs,         \* files under /tmp/uploads: path -> bytes or NoFile
    pc,         \* position of each request in its handler
    req,        \* the request each slot carries
    path,       \* detect_emotion's local temp_path
    img,        \* detect_emotion's local img (what was decoded)
    query,      \* recommend_music's local query
    results,    \* recommend_music's local results["tracks"]["items"]
    calls,      \* how often each pipeline stage was entered, per request
    resp,       \* the response of each request
    vec,        \* a prediction handed to the label resolver
    label       \* the label resolved for vec

vars == <<deploy, model, db, fs, pc, req, path, img, query, results, calls,
          resp, vec, label>>
globals == <<deploy, model, db>>
resolverVars == <<vec, label>>

\* Module-level code of the two files.  src/app.py survives a failed model
\* load and a failed Firebase init (lines 34-38, 45-52); in
\* src/backend/app.py either failure ends the process before it serves.
Startup ==
    \/ /\ deploy = "app"
       /\ model \in Artefacts \cup {NotLoaded}
       /\ db \in {"client", None}
    \/ /\ deploy = "backend"
       /\ model \in Artefacts
       /\ db = "client"

Init ==
    /\ Startup
    /\ fs = [p \in Paths |-> NoFile]
    /\ pc = [r \in Req |-> "idle"]
    /\ req = [r \in Req |-> BlankReq]
    /\ path = [r \in Req |-> ""]
    /\ img = [r \in Req |-> None]
    /\ query = [r \in Req |-> ""]
    /\ results = [r \in Req |-> <<>>]
    /\ calls = [r \in Req |-> NoCalls]
    /\ resp = [r \in Req |-> NoResp]
    /\ vec = <<>>
    /\ label = ""

\* A client sends a request; Flask dispatches it to the route's view.
Receive(r) ==
    /\ pc[r] = "idle"
    /\ \E q \in Requests :
        /\ req' = [req EXCEPT ![r] = q]
        /\ pc' = [pc EXCEPT ![r] = q.route]
    /\ UNCHANGED <<globals, fs, path, img, query, results, calls, resp, resolverVars>>

\* The view returns (or raises): the request is answered.
Respond(r, rsp) ==
    /\ resp' = [resp EXCEPT ![r] = rsp]
    /\ pc' = [pc EXCEPT ![r] = "done"]

Enter(r, stage) == [calls EXCEPT ![r][stage] = @ + 1]

\* ======================================================= src/app.py
\* ------------------------------------------------ detect_emotion (74-107)
\* Lines 78-87: the upload check, the filename default and the temp path.
detect_emotion_check(r) ==
    /\ deploy = "app"
    /\ pc[r] = "detect"
    /\ IF ~req[r].hasImage
       THEN /\ Respond(r, ErrorEnvelope(400, "No image uploaded"))
            /\ UNCHANGED path
       ELSE /\ path' = [path EXCEPT ![r] =
                  temp_path(IF req[r].filename # "" THEN req[r].filename
                            ELSE DEFAULT_FILENAME)]
            /\ pc' = [pc EXCEPT ![r] = "save_open"]
            /\ UNCHANGED resp
    /\ UNCHANGED <<globals, fs, req, img, query, results, calls, resolverVars>>

\* Line 88, file.save(temp_path), first half: open(dst, "wb") creates or
\* truncates the file; a missing directory raises and line 105 answers 500.
detect_emotion_save_open(r) ==
    /\ deploy = "app"
    /\ pc[r] = "save_open"
    /\ IF path[r] \in Paths
       THEN /\ fs' = [fs EXCEPT ![path[r]] = ""]
            /\ pc' = [pc EXCEPT ![r] = "save_write"]
            /\ UNCHANGED resp
       ELSE /\ Respond(r, ErrorEnvelope(500, "No such file or directory"))
            /\ UNCHANGED fs
    /\ UNCHANGED <<globals, req, path, img, query, results, calls, resolverVars>>

\* Line 88, second half: the upload's bytes are copied into the file.
detect_emotion_save_write(r) ==
    /\ deploy = "app"
    /\ pc[r] = "save_write"
    /\ fs' = [fs EXCEPT ![path[r]] = req[r].bytes]
    /\ pc' = [pc EXCEPT ![r] = "imread"]
    /\ UNCHANGED <<globals, req, path, img, query, results, calls, resp, resolverVars>>

\* Lines 92-94: cv2.imread of whatever the temp path holds now.
detect_emotion_imread(r) ==
    /\ deploy = "app"
    /\ pc[r] = "imread"
    /\ calls' = Enter(r, "decode")
    /\ img' = [img EXCEPT ![r] = decode_gray(fs[path[r]])]
    /\ IF decode_gray(fs[path[r]]) = None
       THEN Respond(r, ErrorEnvelope(400, "Invalid image format"))
       ELSE /\ pc' = [pc EXCEPT ![r] = "predict"]
            /\ UNCHANGED resp
    /\ UNCHANGED <<globals, fs, req, path, query, results, resolverVars>>

\* Lines 96-107: resize and reshape, model.predict, label lookup, response.
\* `model` is unbound when the load at line 35 failed (NameError); predict
\* itself may raise (`fault`).
detect_emotion_predict(r) ==
    /\ deploy = "app"
    /\ pc[r] = "predict"
    /\ \E fault \in BOOLEAN :
        LET pred == predict(model, img[r])
            emotion == resolve_label(pred)
        IN  IF model = NotLoaded
            THEN /\ ~fault
                 /\ calls' = Enter(r, "preprocess")
                 /\ Respond(r, ErrorEnvelope(500, "name 'model' is not defined"))
            ELSE IF fault
            THEN /\ calls' = [calls EXCEPT ![r]["preprocess"] = @ + 1,
                                           ![r]["classify"] = @ + 1]
                 /\ Respond(r, ErrorEnvelope(500, "classifier fault"))
            ELSE /\ calls' = [calls EXCEPT ![r]["preprocess"] = @ + 1,
                                           ![r]["classify"] = @ + 1,
                                           ![r]["resolve"] = @ + 1]
                 /\ IF emotion = IndexError
                    THEN Respond(r, ErrorEnvelope(500, IndexError))
                    ELSE Respond(r, OkEnvelope({"emotion"}, emotion, <<>>))
    /\ UNCHANGED <<globals, fs, req, path, img, query, results, resolverVars>>

\* ----------------------------------------------- recommend_music (111-139)
\* A raw catalog record: `keys` are the top-level keys the dict has; the
\* other fields hold the values below them.
TrackKeys == {"name", "artists", "preview_url", "external_urls", "album"}
FullTrack ==
    [keys |-> TrackKeys, name |-> "Song", artists |-> <<"Singer">>,
     preview_url |-> "http://preview", spotify |-> "http://track",
     images |-> <<"http://art", "http://art-small">>]
OtherTrack == [FullTrack EXCEPT !.name = "Other", !.artists = <<"Band", "Guest">>]
NoImages == [FullTrack EXCEPT !.name = "NoImages", !.images = <<>>]
NullPreview == [FullTrack EXCEPT !.name = "NullPreview", !.preview_url = None]
NoAlbum == [FullTrack EXCEPT !.name = "NoAlbum", !.keys = TrackKeys \ {"album"}]
NoPreviewKey == [FullTrack EXCEPT !.name = "NoPreviewKey",
                                  !.keys = TrackKeys \ {"preview_url"}]
NoName == [FullTrack EXCEPT !.keys = TrackKeys \ {"name"}]
NoArtists == [FullTrack EXCEPT !.name = "NoArtists", !.artists = <<>>]
NoUrl == [FullTrack EXCEPT !.name = "NoUrl", !.keys = TrackKeys \ {"external_urls"}]

\* What sp.search(...)["tracks"]["items"] may hold
CatalogResults ==
    {<<>>, <<FullTrack>>, <<FullTrack, OtherTrack>>, <<NoImages, FullTrack>>,
     <<NullPreview>>, <<FullTrack, NoAlbum>>, <<NoPreviewKey, FullTrack>>,
     <<FullTrack, NoName>>, <<NoArtists, FullTrack>>, <<NoUrl>>}

\* Lines 127-133: the lookups of one dict literal, in evaluation order; the
\* first one that fails raises ("" when none does).
track_error(t) ==
    IF "name" \notin t.keys THEN "'name'"
    ELSE IF "artists" \notin t.keys THEN "'artists'"
    ELSE IF t.artists = <<>> THEN "list index out of range"
    ELSE IF "preview_url" \notin t.keys THEN "'preview_url'"
    ELSE IF "external_urls" \notin t.keys THEN "'external_urls'"
    ELSE IF "album" \notin t.keys THEN "'album'"
    ELSE ""

to_track(t) ==
    [name |-> t.name, artist |-> t.artists[1], preview |-> t.preview_url,
     url |-> t.spotify,
     album |-> IF t.images # <<>> THEN t.images[1] ELSE None]

\* Lines 125-133: the loop stops at the first record that raises.
RECURSIVE first_error(_)
first_error(items) ==
    IF items = <<>> THEN ""
    ELSE IF track_error(Head(items)) # "" THEN track_error(Head(items))
    ELSE first_error(Tail(items))

tracks_of(items) == [i \in 1..Len(items) |-> to_track(items[i])]

\* Line 122: f"{emotion} mood {language} songs {artist}"
build_query(emotion, language, artist) ==
    emotion \o " mood " \o language \o " songs " \o artist

\* data.get(key, default)
dict_get(value, default) == IF value = Missing THEN default ELSE value

\* Lines 114-122: get_json, the three reads, the emotion check, the query.
recommend_music_parse(r) ==
    /\ deploy = "app"
    /\ pc[r] = "recommend"
    /\ LET emotion == dict_get(req[r].emotion, None)
           language == dict_get(req[r].language, "english")
           artist == dict_get(req[r].artist, "")
       IN  IF req[r].body = "malformed"
           THEN /\ Respond(r, ErrorEnvelope(500, "400 Bad Request"))
                /\ UNCHANGED <<query, calls>>
           ELSE IF req[r].body = "null"
           THEN /\ Respond(r, ErrorEnvelope(500,
                       "'NoneType' object has no attribute 'get'"))
                /\ UNCHANGED <<query, calls>>
           ELSE IF emotion = None \/ emotion = ""
           THEN /\ Respond(r, ErrorEnvelope(400, "Emotion not provided"))
                /\ UNCHANGED <<query, calls>>
           ELSE /\ query' = [query EXCEPT ![r] =
                       build_query(emotion, language, artist)]
                /\ calls' = Enter(r, "query")
                /\ pc' = [pc EXCEPT ![r] = "search"]
                /\ UNCHANGED resp
    /\ UNCHANGED <<globals, fs, req, path, img, results, resolverVars>>

\* Lines 123-139: one sp.search call, the projection loop, the response.
recommend_music_search(r) ==
    /\ deploy = "app"
    /\ pc[r] = "search"
    /\ \/ /\ calls' = Enter(r, "search")
          /\ UNCHANGED results
          /\ Respond(r, ErrorEnvelope(500, "catalog request failed"))
       \/ \E items \in CatalogResults :
            /\ results' = [results EXCEPT ![r] = items]
            /\ calls' = [calls EXCEPT ![r]["search"] = @ + 1,
                                      ![r]["normalize"] = @ + 1]
            /\ IF first_error(items) # ""
               THEN Respond(r, ErrorEnvelope(500, first_error(items)))
               ELSE Respond(r, OkEnvelope({"songs"}, "", tracks_of(items)))
    /\ UNCHANGED <<globals, fs, req, path, img, query, resolverVars>>

\* ------------------------------------------------------- signup (143-160)
\* auth.create_user and the Firestore write are calls to the identity
\* provider; each may raise.  With db = None the Firebase setup failed, so
\* one of the two raises.
signup(r) ==
    /\ deploy = "app"
    /\ pc[r] = "signup"
    /\ IF req[r].body = "malformed"
       THEN Respond(r, ErrorEnvelope(500, "400 Bad Request"))
       ELSE IF req[r].body = "null"
       THEN Respond(r, ErrorEnvelope(500, "'NoneType' object is not subscriptable"))
       ELSE IF req[r].email = Missing
       THEN Respond(r, ErrorEnvelope(500, "'email'"))
       ELSE IF req[r].password = Missing
       THEN Respond(r, ErrorEnvelope(500, "'password'"))
       ELSE \E outcome \in {"ok", "auth_error", "store_error"} :
            /\ db = None => outcome # "ok"
            /\ IF outcome = "ok"
               THEN Respond(r, OkEnvelope({"uid", "message"}, "uid-1", <<>>))
               ELSE Respond(r, ErrorEnvelope(500, outcome))
    /\ UNCHANGED <<globals, fs, req, path, img, query, results, calls, resolverVars>>

\* ----------------------------------------------- forgot_password (164-175)
forgot_password(r) ==
    /\ deploy = "app"
    /\ pc[r] = "forgot-password"
    /\ IF req[r].body = "malformed"
       THEN Respond(r, ErrorEnvelope(500, "400 Bad Request"))
       ELSE IF req[r].body = "null"
       THEN Respond(r, ErrorEnvelope(500, "'NoneType' object is not subscriptable"))
       ELSE IF req[r].email = Missing
       THEN Respond(r, ErrorEnvelope(500, "'email'"))
       ELSE \E outcome \in {"ok", "auth_error"} :
            IF outcome = "ok"
            THEN Respond(r, OkEnvelope({"link"}, "http://reset", <<>>))
            ELSE Respond(r, ErrorEnvelope(500, outcome))
    /\ UNCHANGED <<globals, fs, req, path, img, query, results, calls, resolverVars>>

\* =============================================== src/backend/app.py
\* No view of this file has a try block: whatever raises leaves the view.

\* ------------------------------------------------- detect_emotion (28-36)
\* The upload is decoded from memory.  files.get("image") is None without
\* the field; imdecode rejects an empty buffer and returns None for bytes
\* that are no image, which cv2.resize then rejects.
backend_detect_emotion(r) ==
    /\ deploy = "backend"
    /\ pc[r] = "detect"
    /\ \E fault \in BOOLEAN :
        LET decoded == decode_gray(req[r].bytes)
            pred == predict(model, decoded)
            emotion == resolve_label(pred)
        IN  IF ~req[r].hasImage
            THEN /\ ~fault
                 /\ Respond(r, Unhandled(500,
                        "'NoneType' object has no attribute 'read'"))
                 /\ UNCHANGED <<img, calls>>
            ELSE IF req[r].bytes = ""
            THEN /\ ~fault
                 /\ calls' = Enter(r, "decode")
                 /\ Respond(r, Unhandled(500, "imdecode: empty buffer"))
                 /\ UNCHANGED img
            ELSE IF decoded = None
            THEN /\ ~fault
                 /\ calls' = [calls EXCEPT ![r]["decode"] = @ + 1,
                                           ![r]["preprocess"] = @ + 1]
                 /\ Respond(r, Unhandled(500, "resize: empty source"))
                 /\ UNCHANGED img
            ELSE /\ img' = [img EXCEPT ![r] = decoded]
                 /\ IF fault
                    THEN /\ calls' = [calls EXCEPT ![r]["decode"] = @ + 1,
                                                   ![r]["preprocess"] = @ + 1,
                                                   ![r]["classify"] = @ + 1]
                         /\ Respond(r, Unhandled(500, "classifier fault"))
                    ELSE /\ calls' = [calls EXCEPT ![r]["decode"] = @ + 1,
                                                   ![r]["preprocess"] = @ + 1,
                                                   ![r]["classify"] = @ + 1,
                                                   ![r]["resolve"] = @ + 1]
                         /\ IF emotion = IndexError
                            THEN Respond(r, Unhandled(500, IndexError))
                            ELSE Respond(r, BareJson({"emotion"}, emotion, <<>>))
    /\ UNCHANGED <<globals, fs, req, path, query, results, resolverVars>>

\* ------------------------------------------------ recommend_music (38-52)
\* Lines 47-50: the dict literal has no album entry.
backend_track_error(t) ==
    IF "name" \notin t.keys THEN "'name'"
    ELSE IF "artists" \notin t.keys THEN "'artists'"
    ELSE IF t.artists = <<>> THEN "list index out of range"
    ELSE IF "preview_url" \notin t.keys THEN "'preview_url'"
    ELSE IF "external_urls" \notin t.keys THEN "'external_urls'"
    ELSE ""

backend_to_track(t) ==
    [name |-> t.name, artist |-> t.artists[1], preview |-> t.preview_url,
     url |-> t.spotify, album |-> Omitted]

RECURSIVE backend_first_error(_)
backend_first_error(items) ==
    IF items = <<>> THEN ""
    ELSE IF backend_track_error(Head(items)) # ""
    THEN backend_track_error(Head(items))
    ELSE backend_first_error(Tail(items))

backend_tracks_of(items) ==
    [i \in 1..Len(items) |-> backend_to_track(items[i])]

\* Lines 40-44: data["emotion"] raises KeyError when the key is absent; an
\* empty emotion passes.  A BadRequest raised by get_json is answered by
\* Flask with its own 400 page.
backend_recommend_music_parse(r) ==
    /\ deploy = "backend"
    /\ pc[r] = "recommend"
    /\ LET language == dict_get(req[r].language, "english")
           artist == dict_get(req[r].artist, "")
       IN  IF req[r].body = "malformed"
           THEN /\ Respond(r, Unhandled(400, "400 Bad Request"))
                /\ UNCHANGED <<query, calls>>
           ELSE IF req[r].body = "null"
           THEN /\ Respond(r, Unhandled(500,
                       "'NoneType' object is not subscriptable"))
                /\ UNCHANGED <<query, calls>>
           ELSE IF req[r].emotion = Missing
           THEN /\ Respond(r, Unhandled(500, "'emotion'"))
                /\ UNCHANGED <<query, calls>>
           ELSE /\ query' = [query EXCEPT ![r] =
                       build_query(req[r].emotion, language, artist)]
                /\ calls' = Enter(r, "query")
                /\ pc' = [pc EXCEPT ![r] = "search"]
                /\ UNCHANGED resp
    /\ UNCHANGED <<globals, fs, req, path, img, results, resolverVars>>

\* Lines 45-52: one sp.search call, the list comprehension, the response.
backend_recommend_music_search(r) ==
    /\ deploy = "backend"
    /\ pc[r] = "search"
    /\ \/ /\ calls' = Enter(r, "search")
          /\ UNCHANGED results
          /\ Respond(r, Unhandled(500, "catalog request failed"))
       \/ \E items \in CatalogResults :
            /\ results' = [results EXCEPT ![r] = items]
            /\ calls' = [calls EXCEPT ![r]["search"] = @ + 1,
                                      ![r]["normalize"] = @ + 1]
            /\ IF backend_first_error(items) # ""
               THEN Respond(r, Unhandled(500, backend_first_error(items)))
               ELSE Respond(r, BareJson({"songs"}, "", backend_tracks_of(items)))
    /\ UNCHANGED <<globals, fs, req, path, img, query, resolverVars>>

\* --------------------------------------------------------- signup (54-58)
backend_signup(r) ==
    /\ deploy = "backend"
    /\ pc[r] = "signup"
    /\ IF req[r].body = "malformed"
       THEN Respond(r, Unhandled(400, "400 Bad Request"))
       ELSE IF req[r].body = "null"
       THEN Respond(r, Unhandled(500, "'NoneType' object is not subscriptable"))
       ELSE IF req[r].email = Missing
       THEN Respond(r, Unhandled(500, "'email'"))
       ELSE IF req[r].password = Missing
       THEN Respond(r, Unhandled(500, "'password'"))
       ELSE \E outcome \in {"ok", "auth_error"} :
            IF outcome = "ok"
            THEN Respond(r, BareJson({"message", "uid"}, "uid-1", <<>>))
            ELSE Respond(r, Unhandled(500, outcome))
    /\ UNCHANGED <<globals, fs, req, path, img, query, results, calls, resolverVars>>

\* ------------------------------------------------ forgot_password (60-64)
backend_forgot_password(r) ==
    /\ deploy = "backend"
    /\ pc[r] = "forgot-password"
    /\ IF req[r].body = "malformed"
       THEN Respond(r, Unhandled(400, "400 Bad Request"))
       ELSE IF req[r].body = "null"
       THEN Respond(r, Unhandled(500, "'NoneType' object is not subscriptable"))
       ELSE IF req[r].email = Missing
       THEN Respond(r, Unhandled(500, "'email'"))
       ELSE \E outcome \in {"ok", "auth_error"} :
            IF outcome = "ok"
            THEN Respond(r, BareJson({"message", "link"}, "http://reset", <<>>))
            ELSE Respond(r, Unhandled(500, outcome))
    /\ UNCHANGED <<globals, fs, req, path, img, query, results, calls, resolverVars>>

\* ---------------------------------------------------- label resolution
\* Every prediction of the contract's width, with scores in 0..MaxProb.
Predictions == [1..Len(emotion_labels) -> 0..MaxProb]

\* Line 100 of src/app.py, line 35 of src/backend/app.py, on its own.
resolve ==
    /\ label = ""
    /\ label' = resolve_label(vec)
    /\ UNCHANGED <<globals, fs, pc, req, path, img, query, results, calls,
                   resp, vec>>

\* ================================================================ system
AppStep(r) ==
    \/ detect_emotion_check(r)
    \/ detect_emotion_save_open(r)
    \/ detect_emotion_save_write(r)
    \/ detect_emotion_imread(r)
    \/ detect_emotion_predict(r)
    \/ recommend_music_parse(r)
    \/ recommend_music_search(r)
    \/ signup(r)
    \/ forgot_password(r)

BackendStep(r) ==
    \/ backend_detect_emotion(r)
    \/ backend_recommend_music_parse(r)
    \/ backend_recommend_music_search(r)
    \/ backend_signup(r)
    \/ backend_forgot_password(r)

\* Either application, serving requests.
Next == \E r \in Req : Receive(r) \/ AppStep(r) \/ BackendStep(r)
Spec == Init /\ [][Next]_vars

\* src/app.py alone.
InitApp == Init /\ deploy = "app"
NextApp == \E r \in Req : Receive(r) \/ AppStep(r)
SpecApp == InitApp /\ [][NextApp]_vars

\* The label resolver alone, on every prediction of the contract's width.
InitResolve ==
    /\ deploy \in {"app", "backend"}
    /\ model = "m7"
    /\ db = "client"
    /\ fs = [p \in Paths |-> NoFile]
    /\ pc = [r \in Req |-> "idle"]
    /\ req = [r \in Req |-> BlankReq]
    /\ path = [r \in Req |-> ""]
    /\ img = [r \in Req |-> None]
    /\ query = [r \in Req |-> ""]
    /\ results = [r \in Req |-> <<>>]
    /\ calls = [r \in Req |-> NoCalls]
    /\ resp = [r \in Req |-> NoResp]
    /\ vec \in Predictions
    /\ label = ""
NextResolve == resolve
SpecResolve == InitResolve /\ [][NextResolve]_vars

\* ================================================================ claims
Done(r, route) == pc[r] = "done" /\ req[r].route = route

\* The uniform failure envelope {success: false, error: <message>}
IsErrorEnvelope(rsp) ==
    /\ rsp.kind = "json"
    /\ rsp.keys = {"success", "error"}
    /\ rsp.success = FALSE

PayloadKeys == {"emotion", "songs", "uid", "link"}

\* C1: a /detect request without the `image` field is answered with the
\* failure envelope and status 400, never a 500 or an unhandled failure,
\* and enters no decode, preprocess or classifier stage.
C1_NoImageIs400 ==
    \A r \in Req :
        (Done(r, "detect") /\ ~req[r].hasImage) =>
            /\ IsErrorEnvelope(resp[r])
            /\ resp[r].status = 400
            /\ calls[r]["decode"] = 0
            /\ calls[r]["preprocess"] = 0
            /\ calls[r]["classify"] = 0

\* C2: a /recommend request whose emotion is omitted (absent, empty, or no
\* usable JSON object) ends in a 400 failure envelope, and the query-build
\* and catalog-search steps run only after the emotion check has passed.
EmotionOmitted(q) == q.body # "object" \/ q.emotion \in {Missing, ""}
C2_MissingEmotionIs400 ==
    \A r \in Req :
        /\ (Done(r, "recommend") /\ EmotionOmitted(req[r])) =>
              /\ IsErrorEnvelope(resp[r])
              /\ resp[r].status = 400
        /\ (req[r].route = "recommend" /\ EmotionOmitted(req[r])) =>
              /\ calls[r]["query"] = 0
              /\ calls[r]["search"] = 0

\* C3: when the classifier failed to load, every /detect request is
\* answered with a failure envelope (the classifier is unavailable) and
\* no decode, preprocess or inference stage runs for it.
ClassifierUnavailable == "name 'model' is not defined"
C3_UnloadedShortCircuits ==
    \A r \in Req :
        (model = NotLoaded /\ req[r].route = "detect") =>
            /\ calls[r]["decode"] = 0
            /\ calls[r]["preprocess"] = 0
            /\ calls[r]["classify"] = 0
            /\ pc[r] = "done" => IsErrorEnvelope(resp[r])

\* C4: every request to the four routes ends with an envelope in which
\* exactly one of payload and error is present and success is true exactly
\* when the payload is; nothing leaves the handler unhandled.
C4_UniformEnvelope ==
    \A r \in Req :
        pc[r] = "done" =>
            /\ resp[r].kind = "json"
            /\ "success" \in resp[r].keys
            /\ Cardinality(resp[r].keys \cap PayloadKeys) +
               Cardinality(resp[r].keys \cap {"error"}) = 1
            /\ resp[r].success <=> (resp[r].keys \cap PayloadKeys # {})

\* C5: no stage runs twice within a request; a failed catalog search is
\* not retried and is reported as a 500 failure envelope.
UpstreamError == "catalog request failed"
C5_NoRetry ==
    \A r \in Req :
        /\ \A s \in Stages : calls[r][s] <= 1
        /\ (pc[r] = "done" /\ resp[r].error = UpstreamError) =>
              /\ IsErrorEnvelope(resp[r])
              /\ resp[r].status = 500

\* C6: for every prediction of length 7 the resolved emotion is the label
\* at the lowest index that attains the maximum.
LowestMaxIndex(v) ==
    CHOOSE i \in 1..Len(v) :
        /\ \A j \in 1..Len(v) : v[j] <= v[i]
        /\ \A j \in 1..(i - 1) : v[j] < v[i]
C6_FirstMaxWins ==
    label # "" => label = emotion_labels[LowestMaxIndex(vec)]
C6_Witness ==
    /\ vec = <<2, 2, 1, 1, 1, 1, 2>>
    /\ label = "Angry"

\* C7: the song list is exactly the records that have name, artist and
\* external URL, in input order; missing optional fields become null and
\* never fail the request, a record without a required field is left out.
HasRequired(t) ==
    /\ {"name", "artists", "external_urls"} \subseteq t.keys
    /\ t.artists # <<>>
ExpectedTrack(t) ==
    [name |-> t.name, artist |-> t.artists[1],
     preview |-> IF "preview_url" \in t.keys THEN t.preview_url ELSE None,
     url |-> t.spotify,
     album |-> IF "album" \in t.keys /\ t.images # <<>>
               THEN t.images[1] ELSE None]
ExpectedSongs(items) ==
    LET kept == SelectSeq(items, HasRequired)
    IN [i \in 1..Len(kept) |-> ExpectedTrack(kept[i])]
C7_NormalizedSongs ==
    \A r \in Req :
        (Done(r, "recommend") /\ calls[r]["normalize"] > 0) =>
            /\ resp[r].kind = "json"
            /\ "songs" \in resp[r].keys
            /\ resp[r].songs = ExpectedSongs(results[r])

\* C8: under every interleaving, the image a /detect request decodes is
\* the one it uploaded itself.
C8_OwnImageDecoded ==
    \A r \in Req :
        (req[r].route = "detect" /\ calls[r]["decode"] > 0) =>
            img[r] = decode_gray(req[r].bytes)

\* C9: once every request has responded, no temporary upload remains.
C9_NoTempLeft ==
    (\A r \in Req : pc[r] \in {"idle", "done"}) =>
        \A p \in Paths : fs[p] = NoFile

\* C10: in /detect only a classifier or runtime fault ends in a 500;
\* a prediction whose length is not 7 is rejected as a client fault, never
\* resolved to a label.
RuntimeFaults ==
    {"classifier fault", ClassifierUnavailable, "No such file or directory"}
C10_ContentFaultsAre400 ==
    \A r \in Req :
        Done(r, "detect") =>
            /\ resp[r].status = 500 => resp[r].error \in RuntimeFaults
            /\ (calls[r]["resolve"] > 0 /\ OutputWidth(model) # 7) =>
                  /\ resp[r].status = 400
                  /\ "emotion" \notin resp[r].keys

====
